---- MODULE Spec2Model ----
(***************************************************************************)
(* DataValidator (backend/services/data_validator.py): column inference,   *)
(* the validation pipeline, the weekly-cadence check and the date-range    *)
(* accessor, over a pandas DataFrame held by reference.                    *)
(*                                                                         *)
(* Column names are sequences of one-character strings, so that lower(),   *)
(* "spend" in ..., and endswith("_S") are computed and not looked up.      *)
(* A cell is a record [kind, v]:                                           *)
(*   "null"  None / NaN                                                    *)
(*   "str"   a date string denoting day v (all in one format)              *)
(*   "blank" the empty string (parses to NaT, is not null before that)     *)
(*   "bad"   a string that is no date (v tells two such strings apart)     *)
(*   "num"   the number v (parses to v resolution units after the epoch)   *)
(*   "ts"    a parsed Timestamp, v resolution units after the epoch        *)
(*   "nat"   NaT                                                           *)
(* pandas counts time in nanoseconds; the model counts it in resolution    *)
(* units, UnitsPerDay to the day, which keeps numbers far below one day    *)
(* as they are in nanoseconds.                                             *)
(***************************************************************************)
EXTENDS Integers, Sequences, FiniteSets, TLC

(* ------------------------------ bounds -------------------------------- *)

UnitsPerDay == 100
MaxSmallRows == 3
MaxCols == 3
MaxCalls == 2
LongExtra == 1
MaxStored == 1
MaxRuns == 1

(* --------------------------- class constants -------------------------- *)

REQUIRED_MIN_ROWS == 52

DATE_COLUMN_NAMES ==
    << <<"d","a","t","e">>,
       <<"w","e","e","k">>,
       <<"w","e","e","k","_","s","t","a","r","t">>,
       <<"w","e","e","k","_","d","a","t","e">> >>

REVENUE_COLUMN_NAMES ==
    << <<"r","e","v","e","n","u","e">>,
       <<"s","a","l","e","s">>,
       <<"t","o","t","a","l","_","r","e","v","e","n","u","e">>,
       <<"c","o","n","v","e","r","s","i","o","n","s">> >>

(* ------------------------------ strings ------------------------------- *)

\* the letters str.lower() changes, each with its lowercase
LowerTable ==
    [A |-> "a", B |-> "b", C |-> "c", D |-> "d", E |-> "e", F |-> "f", G |-> "g",
     H |-> "h", I |-> "i", J |-> "j", K |-> "k", L |-> "l", M |-> "m", N |-> "n",
     O |-> "o", P |-> "p", Q |-> "q", R |-> "r", S |-> "s", T |-> "t", U |-> "u",
     V |-> "v", W |-> "w", X |-> "x", Y |-> "y", Z |-> "z"]

LowerChar(ch) == IF ch \in DOMAIN LowerTable THEN LowerTable[ch] ELSE ch

\* str.lower()
Lower(name) == [i \in 1..Len(name) |-> LowerChar(name[i])]

\* sub in name
Contains(name, sub) ==
    \E i \in 0..(Len(name) - Len(sub)) : SubSeq(name, i + 1, i + Len(sub)) = sub

\* name.endswith(suf)
EndsWith(name, suf) ==
    /\ Len(name) >= Len(suf)
    /\ SubSeq(name, Len(name) - Len(suf) + 1, Len(name)) = suf

SpendWord == <<"s","p","e","n","d">>
SuffixS == <<"_","S">>

\* None, as a value of date_column and as the result of _detect_column
NoColumn == <<>>

(* ------------------------------- cells -------------------------------- *)

Null == [kind |-> "null", v |-> 0]
Blank == [kind |-> "blank", v |-> 0]
NaT == [kind |-> "nat", v |-> 0]
Str(d) == [kind |-> "str", v |-> d]
Bad(k) == [kind |-> "bad", v |-> k]
Num(x) == [kind |-> "num", v |-> x]
Ts(t) == [kind |-> "ts", v |-> t]
\* Python's None in the pair get_date_range returns
PyNone == [kind |-> "none", v |-> 0]

(* --------------------------- the DataFrame ---------------------------- *)

\* df.columns.get_loc(name); 0 when name is no column
ColumnIndex(df, name) ==
    IF \E i \in 1..Len(df.cols) : df.cols[i] = name
    THEN CHOOSE i \in 1..Len(df.cols) : df.cols[i] = name
    ELSE 0

\* name in df.columns
HasColumn(df, name) == ColumnIndex(df, name) # 0

\* df[name], for a column that exists
Column(df, name) == df.data[ColumnIndex(df, name)]

\* df[name] = values, for a column that exists
SetColumn(df, name, values) ==
    [df EXCEPT !.data = [df.data EXCEPT ![ColumnIndex(df, name)] = values]]

\* Variant of the missing-value test: NaT is not missing
IsNullNotNaT(cell) == cell.kind = "null"

\* pd.isnull on one cell
IsNull(cell) == cell.kind \in {"null", "nat"}

\* series.isnull().sum()
NullCount(col) == Cardinality({i \in 1..Len(col) : IsNull(col[i])})

\* Variant of the duplicate count: every value that occurs more than once
\* is counted, its first occurrence too
DuplicatedCountAll(col) ==
    Cardinality({i \in 1..Len(col) : \E j \in 1..Len(col) : j # i /\ col[j] = col[i]})

\* series.duplicated().sum(): values equal to an earlier one (missing
\* values count as equal to each other)
DuplicatedCount(col) ==
    Cardinality({i \in 1..Len(col) : \E j \in 1..(i - 1) : col[j] = col[i]})

\* pd.to_datetime on one cell of a column that parses
ParseCell(cell) ==
    CASE cell.kind = "str" -> Ts(cell.v * UnitsPerDay)
      [] cell.kind = "num" -> Ts(cell.v)
      [] cell.kind = "ts" -> cell
      [] OTHER -> NaT

\* pd.to_datetime raises: a string that is no date, or numbers among
\* date strings (the format guessed from the strings rejects them)
ParseRaises(col) ==
    \/ \E i \in 1..Len(col) : col[i].kind = "bad"
    \/ /\ \E i \in 1..Len(col) : col[i].kind = "str"
       /\ \E i \in 1..Len(col) : col[i].kind = "num"

\* Variant of the parse: the timestamps come back in ascending order,
\* NaT last, as sort_values() leaves them
ToDatetimeSorted(col) ==
    SortSeq([i \in 1..Len(col) |-> ParseCell(col[i])],
            LAMBDA a, b : a.kind = "ts" /\ (b.kind # "ts" \/ a.v < b.v))

\* pd.to_datetime(series), when it does not raise
ToDatetime(col) == [i \in 1..Len(col) |-> ParseCell(col[i])]

\* no exception
NoExc == "none"

\* The exception pd.to_datetime(self.df[name]) raises, if any: KeyError
\* when the DataFrame has no such column, ValueError when the column does
\* not parse.
ParseAttempt(df, name) ==
    IF ~HasColumn(df, name) THEN "KeyError"
    ELSE IF ParseRaises(Column(df, name)) THEN "ValueError"
    ELSE NoExc

\* "except Exception:" of validate() (line 45), of _check_missing_weeks()
\* (line 130) and of get_date_range() (line 145): the exceptions caught
\* Variant: the clause of line 45 narrowed to KeyError
CatchParseKeyErrorOnly(exc) == exc = "KeyError"

\* Variant: the clause of line 145 narrowed to KeyError
CatchRangeKeyErrorOnly(exc) == exc = "KeyError"

CatchParse(exc) == TRUE
CatchWeeks(exc) == TRUE
CatchRange(exc) == TRUE

(* ------------------------------ messages ------------------------------ *)

\* One appended message: the f-string's text, and the values formatted
\* into it (col: a column name, n: a number; unused ones left empty/0).
Msg(text, col, n) == [text |-> text, col |-> col, n |-> n]

MsgEmpty == Msg("Dataset is empty", NoColumn, 0)
MsgMinRows(n) ==
    Msg("Dataset has {len(self.df)} rows, minimum {self.REQUIRED_MIN_ROWS} required",
        NoColumn, n)
MsgNoDate == Msg("No date column detected. Expected: date, week, week_start", NoColumn, 0)
MsgNoParse(col) == Msg("Could not parse '{self.date_column}' as dates", col, 0)
MsgNoRevenue ==
    Msg("No revenue column detected. Expected: revenue, sales, conversions", NoColumn, 0)
MsgNulls(col, count) == Msg("Column '{col}' has {count} missing values", col, count)
MsgNoSpend ==
    Msg("No spend columns detected (expected columns containing 'spend' or ending with '_S')",
        NoColumn, 0)
MsgDuplicates(count) == Msg("Found {duplicates} duplicate dates", NoColumn, count)
MsgNotWeekly(days) ==
    Msg("Data may not be weekly (median interval: {median_diff.days} days)", NoColumn, days)
MsgGaps(count) == Msg("Found {len(gaps)} gaps in weekly data", NoColumn, count)
MsgPassed == Msg("Data validation passed", NoColumn, 0)

(* -------------------------- column inference -------------------------- *)

\* columns_lower = {c.lower(): c for c in self.df.columns}: its keys in
\* column order (a key once for each column that lowercases to it)
ColumnsLowerKeys(cols) == [i \in 1..Len(cols) |-> Lower(cols[i])]

\* columns_lower[key]: of the columns whose lowercased name is key, the
\* last one (a later column overwrites the entry of an earlier one)
ColumnsLowerGet(cols, keys, key) ==
    LET hits == {i \in 1..Len(cols) : keys[i] = key}
    IN cols[CHOOSE i \in hits : \A j \in hits : j <= i]

\* Variant of _detect_column: the first column, in column order, whose
\* lowercased name is any of the candidates
DetectColumnByPosition(cols, candidates) ==
    LET keys == ColumnsLowerKeys(cols)
        hits == {i \in 1..Len(cols) :
                    \E k \in 1..Len(candidates) : keys[i] = candidates[k]}
    IN IF hits = {} THEN NoColumn
       ELSE cols[CHOOSE i \in hits : \A j \in hits : i <= j]

\* _detect_column(candidates)
DetectColumn(cols, candidates) ==
    LET keys == ColumnsLowerKeys(cols)
        found == {k \in 1..Len(candidates) :
                    \E i \in 1..Len(cols) : keys[i] = candidates[k]}
    IN IF found = {}
       THEN NoColumn
       ELSE ColumnsLowerGet(cols, keys,
                candidates[CHOOSE k \in found : \A m \in found : k <= m])

\* _detect_date_column(): the new value of self.date_column, which is
\* left as it was (dc) when no candidate is present.
DetectDateColumn(cols, dc) ==
    LET found == DetectColumn(cols, DATE_COLUMN_NAMES)
    IN IF found = NoColumn THEN dc ELSE found

\* Variant of the spend test: the suffix is matched in any case
IsSpendColumnAnyCase(name) ==
    Contains(Lower(name), SpendWord) \/ EndsWith(Lower(name), Lower(SuffixS))

\* the spend test of validate() and of get_detected_channels()
IsSpendColumn(name) == Contains(Lower(name), SpendWord) \/ EndsWith(name, SuffixS)

(* --------------------------- cadence check ---------------------------- *)

\* The timestamps of a parsed column that are not NaT, ascending
\* (sort_values() puts NaT last; its differences then drop out in dropna()).
SortedTimes(col) ==
    LET stamps == SelectSeq(col, LAMBDA cell : cell.kind = "ts")
    IN SortSeq([i \in 1..Len(stamps) |-> stamps[i].v], LAMBDA a, b : a < b)

\* dates.diff().dropna() of the sorted timestamps
Diffs(times) == [i \in 1..(Len(times) - 1) |-> times[i + 1] - times[i]]

\* Twice date_diffs.median(): the middle difference, or the mean of the two
\* middle ones, kept exact by doubling.
TwiceMedian(diffs) ==
    LET s == SortSeq(diffs, LAMBDA a, b : a < b)
        m == Len(s)
    IN IF m % 2 = 1 THEN 2 * s[(m + 1) \div 2] ELSE s[m \div 2] + s[m \div 2 + 1]

\* median_diff.days: the whole days of the median
MedianDays(diffs) == TwiceMedian(diffs) \div (2 * UnitsPerDay)

\* Variant of the gap count: a difference of exactly 10 days counts
GapCountInclusive(diffs) ==
    Cardinality({i \in 1..Len(diffs) : diffs[i] >= 10 * UnitsPerDay})

\* len(date_diffs[date_diffs > pd.Timedelta(days=10)])
GapCount(diffs) == Cardinality({i \in 1..Len(diffs) : diffs[i] > 10 * UnitsPerDay})

\* median_diff.days < 5 or median_diff.days > 9
NotWeekly(days) == days < 5 \/ days > 9

\* Variant of _check_missing_weeks(): the gaps are counted after a
\* cadence mismatch too
CheckMissingWeeksNoStop(st) ==
    IF ~HasColumn(st.df, st.date_column) THEN st
    ELSE IF ParseAttempt(st.df, st.date_column) # NoExc THEN st
    ELSE LET dates == ToDatetime(Column(st.df, st.date_column))
             diffs == Diffs(SortedTimes(dates))
             s1 == IF NotWeekly(MedianDays(diffs))
                   THEN [st EXCEPT !.messages = Append(@, MsgNotWeekly(MedianDays(diffs)))]
                   ELSE st
         IN IF Len(dates) < 2 THEN st
            ELSE IF Len(diffs) = 0 THEN st
            ELSE IF GapCount(diffs) > 0
                 THEN [s1 EXCEPT !.messages = Append(@, MsgGaps(GapCount(diffs)))]
            ELSE s1

\* _check_missing_weeks(), on the locals and fields of validate().  A
\* median over no difference is NaT, whose day count compares false both
\* ways, and no difference is a gap then.
CheckMissingWeeks(st) ==
    IF ~HasColumn(st.df, st.date_column) THEN st
    ELSE IF ParseAttempt(st.df, st.date_column) # NoExc
    THEN IF CatchWeeks(ParseAttempt(st.df, st.date_column))
         THEN st
         ELSE [st EXCEPT !.exc = ParseAttempt(st.df, st.date_column)]
    ELSE LET dates == ToDatetime(Column(st.df, st.date_column))
             diffs == Diffs(SortedTimes(dates))
         IN IF Len(dates) < 2 THEN st
            ELSE IF Len(diffs) = 0 THEN st
            ELSE IF NotWeekly(MedianDays(diffs))
                 THEN [st EXCEPT !.messages = Append(@, MsgNotWeekly(MedianDays(diffs)))]
            ELSE IF GapCount(diffs) > 0
                 THEN [st EXCEPT !.messages = Append(@, MsgGaps(GapCount(diffs)))]
            ELSE st

(* ------------------------ validate(), by check ------------------------ *)
\* Each check maps the locals and fields of validate() -- st.status,
\* st.revenue_col, st.messages, st.df, st.date_column -- to their values
\* after the check; st.exc is the exception that left the check, if any.

\* Variant: a plain overwrite, status = "warning"
WarnAlways(status) == "warning"

\* Variant: the finding raises the status to "error"
WarnAsError(status) == "error"

\* status = "warning" unless it is "error" already
WarnUnlessError(status) == IF status # "error" THEN "warning" ELSE status

\* Variant of lines 29-34: REQUIRED_MIN_ROWS rows are too few as well
StepMinRowsInclusive(st) ==
    IF st.df.rows <= REQUIRED_MIN_ROWS
    THEN [st EXCEPT !.messages = Append(@, MsgMinRows(st.df.rows)),
                    !.status = "warning"]
    ELSE st

\* lines 29-34
StepMinRows(st) ==
    IF st.df.rows < REQUIRED_MIN_ROWS
    THEN [st EXCEPT !.messages = Append(@, MsgMinRows(st.df.rows)),
                    !.status = "warning"]
    ELSE st

\* Variant of lines 36-47: the parse is attempted without a date column
\* too, and its KeyError reported as a parse failure
StepDateColumnNoElse(st) ==
    LET dc == DetectDateColumn(st.df.cols, st.date_column)
        s1 == [st EXCEPT !.date_column = dc]
        s2 == IF dc = NoColumn
              THEN [s1 EXCEPT !.messages = Append(@, MsgNoDate), !.status = "error"]
              ELSE s1
    IN IF ParseAttempt(s2.df, dc) = NoExc
       THEN [s2 EXCEPT !.df = SetColumn(@, dc, ToDatetime(Column(s2.df, dc)))]
       ELSE [s2 EXCEPT !.messages = Append(@, MsgNoParse(dc)), !.status = "error"]

\* lines 36-47
StepDateColumn(st) ==
    LET dc == DetectDateColumn(st.df.cols, st.date_column)
        s1 == [st EXCEPT !.date_column = dc]
        exc == ParseAttempt(s1.df, dc)
    IN IF dc = NoColumn
       THEN [s1 EXCEPT !.messages = Append(@, MsgNoDate), !.status = "error"]
       ELSE IF exc = NoExc
       THEN [s1 EXCEPT !.df = SetColumn(@, dc, ToDatetime(Column(s1.df, dc)))]
       ELSE IF CatchParse(exc)
       THEN [s1 EXCEPT !.messages = Append(@, MsgNoParse(dc)), !.status = "error"]
       ELSE [s1 EXCEPT !.exc = exc]

\* lines 49-53
StepRevenue(st) ==
    LET s1 == [st EXCEPT !.revenue_col = DetectColumn(st.df.cols, REVENUE_COLUMN_NAMES)]
    IN IF s1.revenue_col = NoColumn
       THEN [s1 EXCEPT !.messages = Append(@, MsgNoRevenue),
                       !.status = WarnUnlessError(@)]
       ELSE s1

\* the messages of lines 59-60 for the columns from position i on
RECURSIVE NullMessages(_, _)
NullMessages(df, i) ==
    IF i > Len(df.cols) THEN <<>>
    ELSE IF NullCount(df.data[i]) > 0
    THEN <<MsgNulls(df.cols[i], NullCount(df.data[i]))>> \o NullMessages(df, i + 1)
    ELSE NullMessages(df, i + 1)

\* Variant of lines 55-62: the messages in reverse column order
StepNullsReversed(st) ==
    LET m == NullMessages(st.df, 1)
    IN IF Len(m) > 0
       THEN [st EXCEPT !.messages = @ \o [k \in 1..Len(m) |-> m[Len(m) + 1 - k]],
                       !.status = WarnUnlessError(@)]
       ELSE st

\* lines 55-62
StepNulls(st) ==
    IF Len(NullMessages(st.df, 1)) > 0
    THEN [st EXCEPT !.messages = @ \o NullMessages(st.df, 1),
                    !.status = WarnUnlessError(@)]
    ELSE st

\* lines 64-69
StepSpend(st) ==
    IF ~\E i \in 1..Len(st.df.cols) : IsSpendColumn(st.df.cols[i])
    THEN [st EXCEPT !.messages = Append(@, MsgNoSpend),
                    !.status = WarnUnlessError(@)]
    ELSE st

\* Variant of lines 71-77: the duplicates are not counted once the status
\* is "error"
StepDuplicatesUnlessError(st) ==
    IF /\ st.date_column # NoColumn
       /\ st.status # "error"
       /\ HasColumn(st.df, st.date_column)
       /\ DuplicatedCount(Column(st.df, st.date_column)) > 0
    THEN [st EXCEPT
            !.messages = Append(@, MsgDuplicates(DuplicatedCount(Column(st.df, st.date_column)))),
            !.status = WarnUnlessError(@)]
    ELSE st

\* lines 71-77
StepDuplicates(st) ==
    IF /\ st.date_column # NoColumn
       /\ HasColumn(st.df, st.date_column)
       /\ DuplicatedCount(Column(st.df, st.date_column)) > 0
    THEN [st EXCEPT
            !.messages = Append(@, MsgDuplicates(DuplicatedCount(Column(st.df, st.date_column)))),
            !.status = WarnUnlessError(@)]
    ELSE st

\* lines 79-81
StepMissingWeeks(st) ==
    IF st.date_column # NoColumn /\ st.status # "error"
    THEN CheckMissingWeeks(st)
    ELSE st

\* Variant of lines 83-84: nothing is appended
StepFinalSkipped(st) == st

\* Variant of lines 83-84: the message is appended to every report
StepFinalAlways(st) == [st EXCEPT !.messages = Append(@, MsgPassed)]

\* lines 83-84
StepFinal(st) ==
    IF st.messages = <<>> THEN [st EXCEPT !.messages = <<MsgPassed>>] ELSE st

\* Variant of line 21: the list is not reset
ResetMessagesKept(old) == old

\* self.messages = [] (line 21): the list validate() starts from, given the
\* list the validator holds
ResetMessages(old) == <<>>

\* Variant of line 25: the emptiness check never fires
IsEmptyNever(df) == FALSE

\* len(self.df) == 0 (line 25)
IsEmpty(df) == df.rows = 0

\* lines 21-22: the locals and fields validate() starts from, on the
\* DataFrame d by a validator whose fields are dc and old
StartValidate(d, dc, old) ==
    [status |-> "valid", messages |-> ResetMessages(old), df |-> d,
     date_column |-> dc, revenue_col |-> NoColumn, exc |-> NoExc,
     returned |-> FALSE]

\* lines 24-27: the early return, whose status is "error"
StepEmpty(st) ==
    IF IsEmpty(st.df)
    THEN [st EXCEPT !.messages = Append(@, MsgEmpty), !.status = "error",
                    !.returned = TRUE]
    ELSE st

\* validate() has returned, or an exception has left a check: the checks
\* after it do not run
Halted(st) == st.returned \/ st.exc # NoExc

(* -------------------------- get_date_range() -------------------------- *)

\* dates.min() / dates.max() over the timestamps that are not NaT; NaT when
\* there is none, which to_pydatetime() hands back as it is.
SeriesMin(dates) ==
    LET t == SortedTimes(dates) IN IF Len(t) = 0 THEN NaT ELSE Ts(t[1])

SeriesMax(dates) ==
    LET t == SortedTimes(dates) IN IF Len(t) = 0 THEN NaT ELSE Ts(t[Len(t)])

\* lines 135-137: self.date_column after get_date_range()
DateRangeColumn(df, dc) ==
    IF dc = NoColumn \/ ~HasColumn(df, dc) THEN DetectDateColumn(df.cols, dc) ELSE dc

\* lines 139-146: the pair returned, and the exception that leaves
\* get_date_range(), if any
DateRange(df, dc) ==
    LET c == DateRangeColumn(df, dc)
        exc == ParseAttempt(df, c)
    IN IF c = NoColumn \/ ~HasColumn(df, c)
       THEN [range |-> <<PyNone, PyNone>>, exc |-> NoExc]
       ELSE IF exc = NoExc
       THEN [range |-> <<SeriesMin(ToDatetime(Column(df, c))),
                         SeriesMax(ToDatetime(Column(df, c)))>>,
             exc |-> NoExc]
       ELSE IF CatchRange(exc)
       THEN [range |-> <<PyNone, PyNone>>, exc |-> NoExc]
       ELSE [range |-> <<PyNone, PyNone>>, exc |-> exc]

(* ----------------------- get_detected_channels() ---------------------- *)

SpendPrefix == <<"s","p","e","n","d","_">>
SpendSuffix == <<"_","s","p","e","n","d">>

\* name.replace(old, ""): every occurrence of old, found left to right
\* without overlap, is taken out; the match is case-sensitive.
RECURSIVE Remove(_, _)
Remove(name, old) ==
    IF Len(name) < Len(old) THEN name
    ELSE IF SubSeq(name, 1, Len(old)) = old
         THEN Remove(SubSeq(name, Len(old) + 1, Len(name)), old)
    ELSE <<name[1]>> \o Remove(Tail(name), old)

\* Variant of the entry of a spend column: only "spend_" is taken out
ChannelNamePrefixOnly(c) ==
    IF Contains(Lower(c), SpendWord)
    THEN Remove(c, SpendPrefix)
    ELSE SubSeq(c, 1, Len(c) - 2)

\* the entry appended for a qualifying column c: the first branch for a
\* name that holds "spend" in any case, c[:-2] for the others
ChannelName(c) ==
    IF Contains(Lower(c), SpendWord)
    THEN Remove(Remove(c, SpendPrefix), SpendSuffix)
    ELSE SubSeq(c, 1, Len(c) - 2)

\* Variant of get_detected_channels(): only the names that hold "spend"
\* are listed
DetectedChannelsSpendOnly(cols) ==
    LET q == SelectSeq(cols, LAMBDA c : Contains(Lower(c), SpendWord))
    IN [k \in 1..Len(q) |-> ChannelName(q[k])]

\* get_detected_channels()
DetectedChannels(cols) ==
    LET q == SelectSeq(cols, IsSpendColumn)
    IN [k \in 1..Len(q) |-> ChannelName(q[k])]

(* ------------------------------ datasets ------------------------------ *)
\* The DataFrames the validator is constructed on.  As read_csv and the
\* warehouse client build them, a column holds strings and missing values,
\* or numbers and missing values.

NameDate == <<"d","a","t","e">>
NameDateCap == <<"D","a","t","e">>
NameWeekUp == <<"W","E","E","K">>
NameWeekStart == <<"w","e","e","k","_","s","t","a","r","t">>
NameUpdate == <<"u","p","d","a","t","e">>
NameRevenue == <<"r","e","v","e","n","u","e">>
NameSales == <<"S","a","l","e","s">>
NameSpendMeta == <<"s","p","e","n","d","_","m","e","t","a">>
NameTvSpend == <<"T","V","_","S","p","e","n","d">>
NameGoogleS == <<"g","o","o","g","l","e","_","S">>
NameGoogleLow == <<"g","o","o","g","l","e","_","s">>
NameClicks == <<"c","l","i","c","k","s">>

NameUniverse ==
    {NameDate, NameDateCap, NameWeekUp, NameUpdate, NameSales,
     NameTvSpend, NameGoogleS, NameGoogleLow}

\* the sequences of distinct names, at most MaxCols long
NameLayouts ==
    UNION {{c \in [1..k -> NameUniverse] : \A i, j \in 1..k : i # j => c[i] # c[j]}
           : k \in 0..MaxCols}

\* a column of n date strings a week apart
Weekly(n) == [i \in 1..n |-> Str(7 * (i - 1))]

\* a column of n numbers
Numbers(n) == [i \in 1..n |-> Num(i)]

\* Datasets of two rows over every layout of names; every column holds the
\* same two date strings, a week apart.
NameDatasets ==
    {[cols |-> c, rows |-> IF Len(c) = 0 THEN 0 ELSE 2,
      data |-> [i \in 1..Len(c) |-> Weekly(2)]] : c \in NameLayouts}

SmallStringCells == {Null, Blank, Bad(1), Str(0), Str(9), Str(19)}
SmallNumberCells == {Null, Num(1), Num(2)}

\* the short columns: strings with missing values, or numbers with them
SmallColumns(n) == [1..n -> SmallStringCells] \cup [1..n -> SmallNumberCells]

\* a column of n numbers, or the same with its first value missing
ValueColumns(n) ==
    {Numbers(n)} \cup
    (IF n = 0 THEN {} ELSE {[Numbers(n) EXCEPT ![1] = Null]})

\* Datasets of 0..MaxSmallRows rows whose date column runs over the short
\* columns; the columns beside it hold numbers, the first one possibly
\* with a missing value.
SmallDatasets ==
    UNION {{[cols |-> <<NameDate, NameRevenue, NameSpendMeta>>, rows |-> n,
             data |-> <<d, r, Numbers(n)>>]
            : d \in SmallColumns(n), r \in ValueColumns(n)}
           : n \in 0..MaxSmallRows}

\* A long date column: n date strings step days apart; from row pos on
\* the dates are shift days later; then the cell at row pos is replaced
\* as edit says ("dup": by the cell before it).
LongColumn(n, step, pos, shift, edit) ==
    LET base == [i \in 1..n |->
                    Str(step * (i - 1) + (IF i >= pos THEN shift ELSE 0))]
    IN CASE edit = "dup" -> [base EXCEPT ![pos] = base[pos - 1]]
         [] edit = "null" -> [base EXCEPT ![pos] = Null]
         [] edit = "bad" -> [base EXCEPT ![pos] = Bad(1)]
         [] OTHER -> base

Reversed(col) == [i \in 1..Len(col) |-> col[Len(col) + 1 - i]]

LongRows == (REQUIRED_MIN_ROWS - 1)..(REQUIRED_MIN_ROWS + LongExtra)

LongColumns(n) ==
    LET plain == {LongColumn(n, step, pos, shift, edit) :
                    step \in {1, 7}, pos \in {2, n}, shift \in {0, 3, 7},
                    edit \in {"none", "dup", "null", "bad"}}
    IN plain \cup {Reversed(c) : c \in plain}

LongLayouts ==
    {<<NameDate, NameRevenue, NameSpendMeta>>,
     <<NameWeekStart, NameClicks, NameGoogleS>>,
     <<NameDateCap, NameSales>>}

\* Datasets of about REQUIRED_MIN_ROWS rows: the first column is a long
\* date column, the others hold numbers.
LongDatasets ==
    UNION {{[cols |-> c, rows |-> n,
             data |-> [i \in 1..Len(c) |-> IF i = 1 THEN d ELSE Numbers(n)]]
            : c \in LongLayouts, d \in LongColumns(n)}
           : n \in LongRows}

Datasets == NameDatasets \cup SmallDatasets \cup LongDatasets

NameMetaSpend == <<"m","e","t","a","_","s","p","e","n","d">>
NameSpendS == <<"s","p","e","n","d","_","S">>
NameSpend == <<"s","p","e","n","d">>

ChannelUniverse ==
    {NameSpendMeta, NameMetaSpend, NameTvSpend, NameSpendS, NameSpend,
     NameGoogleS, NameGoogleLow, NameRevenue}

ChannelLayouts ==
    UNION {{c \in [1..k -> ChannelUniverse] : \A i, j \in 1..k : i # j => c[i] # c[j]}
           : k \in 0..MaxCols}
    \cup {<<NameDate, NameRevenue, NameSpendMeta, NameGoogleS>>}

\* Datasets of two rows whose columns are named as spend columns are; a
\* column named "date" holds two date strings a week apart, the others
\* numbers.
ChannelDatasets ==
    {[cols |-> c, rows |-> IF Len(c) = 0 THEN 0 ELSE 2,
      data |-> [i \in 1..Len(c) |->
                  IF c[i] = NameDate THEN Weekly(2) ELSE Numbers(2)]]
     : c \in ChannelLayouts}

(* ----------------------- the platform's records ----------------------- *)
\* The rows of the datasets and model_runs tables, the uploaded files and
\* the background tasks of the API that stores what the validator reports.

Users == {"alice", "bob"}
ClientIds == {1, 2}

\* ClientEntity.owner_id
Owner == [c \in ClientIds |-> IF c = 1 THEN "alice" ELSE "bob"]

\* the lookup every handler starts with: ClientEntity.id == client_id and
\* ClientEntity.owner_id == current_user.id, among the rows of the table
Owned(table, u, c) == c \in table /\ Owner[c] = u

DatasetIds == 1..MaxStored
RunIds == 1..MaxRuns

\* an id of the datasets table: not yet given out, a row, or a row deleted
NoDataset == [kind |-> "free", client_id |-> 0, file_path |-> 0, validation_status |-> "None"]
DeletedDataset ==
    [kind |-> "deleted", client_id |-> 0, file_path |-> 0, validation_status |-> "None"]

\* DatasetEntity(client_id=..., file_path=..., validation_status=...)
DatasetEntity(client, path, status) ==
    [kind |-> "row", client_id |-> client, file_path |-> path, validation_status |-> status]

\* an id of the model_runs table not yet given out
NoRun ==
    [kind |-> "free", client_id |-> 0, dataset_id |-> 0, status |-> "None",
     progress |-> 0, started_at |-> FALSE, completed_at |-> FALSE,
     results |-> FALSE, error_message |-> "None"]

\* a row of the model_runs table deleted with its client
DeletedRun ==
    [kind |-> "deleted", client_id |-> 0, dataset_id |-> 0, status |-> "None",
     progress |-> 0, started_at |-> FALSE, completed_at |-> FALSE,
     results |-> FALSE, error_message |-> "None"]

\* ModelRunEntity(client_id=..., dataset_id=..., config=..., status="queued");
\* started_at, completed_at and results say whether the column is set.
ModelRunEntity(client, dataset) ==
    [kind |-> "row", client_id |-> client, dataset_id |-> dataset, status |-> "queued",
     progress |-> 0, started_at |-> FALSE, completed_at |-> FALSE,
     results |-> FALSE, error_message |-> "None"]

\* the HTTP response of the latest request: its status code
Response(code) == [code |-> code]

(* ---------------------------- the validator --------------------------- *)

VARIABLES
    df,            \* self.df: the caller's DataFrame, shared by reference
    date_column,   \* self.date_column
    messages,      \* self.messages
    history,       \* the calls made so far, each with what it returned
    clients,       \* the ids of the rows of the clients table
    datasets,      \* the datasets table, by id
    files,         \* the ids of the datasets whose uploaded file is on disk
    runs,          \* the model_runs table, by id
    tasks,         \* the background task of each model run: where it stands
    response       \* the response to the latest request

vars == <<df, date_column, messages, history, clients, datasets, files, runs, tasks,
          response>>

validator == <<df, date_column, messages, history>>
platform == <<clients, datasets, files, runs, tasks, response>>

\* init_db() and each user's client created: no dataset, no run, no file,
\* no task
PlatformIdle ==
    /\ clients = ClientIds
    /\ datasets = [i \in DatasetIds |-> NoDataset]
    /\ files = {}
    /\ runs = [r \in RunIds |-> NoRun]
    /\ tasks = [r \in RunIds |-> "none"]
    /\ response = Response(0)

NoRange == <<PyNone, PyNone>>

\* DataValidator.__init__(df)
Init ==
    /\ df \in Datasets
    /\ date_column = NoColumn
    /\ messages = <<>>
    /\ history = <<>>
    /\ PlatformIdle

\* validator.validate(): the checks in source order, each on the locals
\* and fields the one before it left.  The call is recorded with the
\* status and messages it returned ("raised" when an exception left it)
\* and the trace of the status from its start through every check.
Validate ==
    /\ Len(history) < MaxCalls
    /\ \E s0 \in {StartValidate(df, date_column, messages)} :
       \E s1 \in {StepEmpty(s0)} :
       \E s2 \in {IF Halted(s1) THEN s1 ELSE StepMinRows(s1)} :
       \E s3 \in {IF Halted(s2) THEN s2 ELSE StepDateColumn(s2)} :
       \E s4 \in {IF Halted(s3) THEN s3 ELSE StepRevenue(s3)} :
       \E s5 \in {IF Halted(s4) THEN s4 ELSE StepNulls(s4)} :
       \E s6 \in {IF Halted(s5) THEN s5 ELSE StepSpend(s5)} :
       \E s7 \in {IF Halted(s6) THEN s6 ELSE StepDuplicates(s6)} :
       \E s8 \in {IF Halted(s7) THEN s7 ELSE StepMissingWeeks(s7)} :
       \E s9 \in {IF Halted(s8) THEN s8 ELSE StepFinal(s8)} :
          /\ df' = s9.df
          /\ date_column' = s9.date_column
          /\ messages' = s9.messages
          /\ history' = Append(history,
                [op |-> "validate",
                 status |-> IF s9.exc # NoExc THEN "raised" ELSE s9.status,
                 messages |-> s9.messages,
                 trace |-> <<s0.status, s1.status, s2.status, s3.status, s4.status,
                             s5.status, s6.status, s7.status, s8.status, s9.status>>,
                 revenue_col |-> s9.revenue_col, range |-> NoRange,
                 channels |-> <<>>, df0 |-> df, dc0 |-> date_column])
          /\ UNCHANGED platform

\* validator.get_date_range()
GetDateRange ==
    /\ Len(history) < MaxCalls
    /\ \E r \in {DateRange(df, date_column)} :
          history' = Append(history,
            [op |-> "get_date_range",
             status |-> IF r.exc # NoExc THEN "raised" ELSE "returned",
             messages |-> <<>>, trace |-> <<>>, revenue_col |-> NoColumn,
             range |-> r.range, channels |-> <<>>,
             df0 |-> df, dc0 |-> date_column])
    /\ date_column' = DateRangeColumn(df, date_column)
    /\ UNCHANGED <<df, messages>>
    /\ UNCHANGED platform

Next == Validate \/ GetDateRange

Spec == Init /\ [][Next]_vars

\* validator.get_detected_channels(): reads the column names only
GetDetectedChannels ==
    /\ Len(history) < MaxCalls
    /\ history' = Append(history,
            [op |-> "get_detected_channels", status |-> "returned",
             messages |-> <<>>, trace |-> <<>>, revenue_col |-> NoColumn,
             range |-> NoRange, channels |-> DetectedChannels(df.cols),
             df0 |-> df, dc0 |-> date_column])
    /\ UNCHANGED <<df, date_column, messages>>
    /\ UNCHANGED platform

\* DataValidator.__init__(df), on the datasets above and on those whose
\* columns are named as channels are
InitChannels ==
    /\ df \in Datasets \cup ChannelDatasets
    /\ date_column = NoColumn
    /\ messages = <<>>
    /\ history = <<>>
    /\ PlatformIdle

NextChannels == Validate \/ GetDateRange \/ GetDetectedChannels

\* the validator with all three of its public methods
SpecChannels == InitChannels /\ [][NextChannels]_vars

\* the sequence without its k-th element
Without(seq, k) == SubSeq(seq, 1, k - 1) \o SubSeq(seq, k + 1, Len(seq))

\* The caller drops one column of the DataFrame it shares with the
\* validator (del df[name]), once, between two calls of the validator.
DropColumn ==
    /\ history # <<>>
    /\ Len(history) < MaxCalls
    /\ df.cols = history[1].df0.cols
    /\ \E k \in 1..Len(df.cols) :
          df' = [df EXCEPT !.cols = Without(@, k), !.data = Without(@, k)]
    /\ UNCHANGED <<date_column, messages, history>>
    /\ UNCHANGED platform

\* the two-row datasets of at most two columns
DroppableDatasets == {d \in NameDatasets : Len(d.cols) <= 2}

\* DataValidator.__init__(df)
InitDrop ==
    /\ df \in DroppableDatasets
    /\ date_column = NoColumn
    /\ messages = <<>>
    /\ history = <<>>
    /\ PlatformIdle

NextDrop == Validate \/ GetDateRange \/ DropColumn

\* the validator and a caller that changes the columns between calls
SpecDrop == InitDrop /\ [][NextDrop]_vars

(* ---------------------------- the platform ---------------------------- *)

\* The DataFrames pd.read_csv hands to upload_csv: a clean year of weeks,
\* two weeks, a date column that does not parse, and no rows.
UploadFrames ==
    {[cols |-> <<NameDate, NameRevenue, NameSpendMeta>>, rows |-> n,
      data |-> <<Weekly(n), Numbers(n), Numbers(n)>>] : n \in {0, 2, REQUIRED_MIN_ROWS}}
    \cup {[cols |-> <<NameDate, NameRevenue, NameSpendMeta>>, rows |-> 2,
           data |-> <<<<Bad(1), Str(0)>>, Numbers(2), Numbers(2)>>]}

\* the id the next inserted row gets
NextId(table) == CHOOSE i \in DOMAIN table :
                    table[i].kind = "free" /\ \A j \in 1..(i - 1) : table[j].kind # "free"

HasFreeId(table) == \E i \in DOMAIN table : table[i].kind = "free"

\* POST /{client_id}/upload by user u: the file is saved and read, the
\* DataFrame validated, and the dataset stored with the status reported.
UploadCsv(u, c, d) ==
    /\ IF ~Owned(clients, u, c)
       THEN /\ response' = Response(404)
            /\ UNCHANGED <<datasets, files>>
       ELSE /\ HasFreeId(datasets)
            /\ \E s0 \in {StartValidate(d, NoColumn, <<>>)} :
               \E s1 \in {StepEmpty(s0)} :
               \E s2 \in {IF Halted(s1) THEN s1 ELSE StepMinRows(s1)} :
               \E s3 \in {IF Halted(s2) THEN s2 ELSE StepDateColumn(s2)} :
               \E s4 \in {IF Halted(s3) THEN s3 ELSE StepRevenue(s3)} :
               \E s5 \in {IF Halted(s4) THEN s4 ELSE StepNulls(s4)} :
               \E s6 \in {IF Halted(s5) THEN s5 ELSE StepSpend(s5)} :
               \E s7 \in {IF Halted(s6) THEN s6 ELSE StepDuplicates(s6)} :
               \E s8 \in {IF Halted(s7) THEN s7 ELSE StepMissingWeeks(s7)} :
               \E s9 \in {IF Halted(s8) THEN s8 ELSE StepFinal(s8)} :
               \E id \in {NextId(datasets)} :
                  IF s9.exc # NoExc \/ DateRange(s9.df, s9.date_column).exc # NoExc
                  THEN /\ response' = Response(500)
                       /\ files' = files \cup {id}
                       /\ UNCHANGED datasets
                  ELSE /\ datasets' = [datasets EXCEPT ![id] = DatasetEntity(c, id, s9.status)]
                       /\ files' = files \cup {id}
                       /\ response' = Response(200)
    /\ UNCHANGED <<clients, runs, tasks>>
    /\ UNCHANGED validator

\* POST /{client_id}/runs by user u on dataset d: the run is stored as
\* "queued" and its background task added.
CreateModelRun(u, c, d) ==
    /\ IF ~Owned(clients, u, c)
       THEN /\ response' = Response(404)
            /\ UNCHANGED <<runs, tasks>>
       ELSE IF datasets[d].kind # "row" \/ datasets[d].client_id # c
       THEN /\ response' = Response(404)
            /\ UNCHANGED <<runs, tasks>>
       ELSE /\ HasFreeId(runs)
            /\ \E r \in {NextId(runs)} :
                  /\ runs' = [runs EXCEPT ![r] = ModelRunEntity(c, d)]
                  /\ tasks' = [tasks EXCEPT ![r] = "pending"]
            /\ response' = Response(201)
    /\ UNCHANGED <<clients, datasets, files>>
    /\ UNCHANGED validator

\* lines 38-39
StartedRun(run) == [run EXCEPT !.status = "running", !.started_at = TRUE]

\* lines 55-63
CompletedRun(run) ==
    [run EXCEPT !.status = "complete", !.completed_at = TRUE, !.progress = 100,
                !.results = TRUE]

\* Variant of lines 66-68: completed_at is left unset
FailedRunNoCompletedAt(run, exc) ==
    [run EXCEPT !.status = "failed", !.error_message = exc]

\* lines 66-68
FailedRun(run, exc) ==
    [run EXCEPT !.status = "failed", !.error_message = exc, !.completed_at = TRUE]

\* Variant of line 65: only what the runner raises is caught
CatchRunRunnerOnly(exc) == exc # "AttributeError"

\* "except Exception as e:" of run_model_async (line 65)
CatchRun(exc) == TRUE

\* What lines 48-52 end in: dataset.file_path raises AttributeError when
\* the dataset row is gone; RobynRunner.run returns results, or raises for
\* a non-zero exit of Rscript (the only outcome once the file is gone),
\* for its timeout, or for a missing status.txt.
RunOutcomes(dataset, onDisk) ==
    IF dataset.kind # "row" THEN {"AttributeError"}
    ELSE IF ~onDisk THEN {"R script failed"}
    ELSE {"results", "R script failed", "Model run timed out after 1 hour",
          "Model did not complete successfully"}

\* run_model_async, lines 33-40: the run is looked up and committed as
\* "running"
RunModelAsyncStart(r) ==
    /\ tasks[r] = "pending"
    /\ IF runs[r].kind # "row"
       THEN /\ tasks' = [tasks EXCEPT ![r] = "done"]
            /\ UNCHANGED runs
       ELSE /\ runs' = [runs EXCEPT ![r] = StartedRun(@)]
            /\ tasks' = [tasks EXCEPT ![r] = "started"]
    /\ UNCHANGED <<clients, datasets, files, response>>
    /\ UNCHANGED validator

\* run_model_async, lines 42-73: the runner is invoked and its outcome
\* committed; an exception that line 65 does not catch leaves the function
\* before the commit of line 70.  A run deleted since line 40 is not
\* written: the session finds no row to load or to update, and raises.
RunModelAsyncFinish(r) ==
    /\ tasks[r] = "started"
    /\ IF runs[r].kind # "row"
       THEN UNCHANGED runs
       ELSE \E o \in RunOutcomes(datasets[runs[r].dataset_id], runs[r].dataset_id \in files) :
               runs' = [runs EXCEPT ![r] = IF o = "results" THEN CompletedRun(@)
                                           ELSE IF CatchRun(o) THEN FailedRun(@, o)
                                           ELSE @]
    /\ tasks' = [tasks EXCEPT ![r] = "done"]
    /\ UNCHANGED <<clients, datasets, files, response>>
    /\ UNCHANGED validator

\* the model runs that refer to dataset d
RunsOf(d) == {r \in RunIds : runs[r].kind = "row" /\ runs[r].dataset_id = d}

\* DELETE /{client_id}/datasets/{dataset_id} by user u: the file is removed,
\* then the row deleted.  With model runs that refer to the row, the commit
\* of line 326 either fails on their dataset_id (the row stays, the file is
\* gone) or goes through, as the database has it.
DeleteDataset(u, c, d) ==
    /\ IF ~Owned(clients, u, c)
       THEN /\ response' = Response(404)
            /\ UNCHANGED <<datasets, files>>
       ELSE IF datasets[d].kind # "row" \/ datasets[d].client_id # c
       THEN /\ response' = Response(404)
            /\ UNCHANGED <<datasets, files>>
       ELSE /\ files' = files \ {datasets[d].file_path}
            /\ \/ /\ datasets' = [datasets EXCEPT ![d] = DeletedDataset]
                  /\ response' = Response(204)
               \/ /\ RunsOf(d) # {}
                  /\ response' = Response(500)
                  /\ UNCHANGED datasets
    /\ UNCHANGED <<clients, runs, tasks>>
    /\ UNCHANGED validator

\* DELETE /{client_id} by user u: the client is deleted, and with it, by
\* the cascade of its relationships, its datasets and its model runs.  The
\* uploaded files stay on disk.
DeleteClient(u, c) ==
    /\ IF ~Owned(clients, u, c)
       THEN /\ response' = Response(404)
            /\ UNCHANGED <<clients, datasets, runs>>
       ELSE /\ clients' = clients \ {c}
            /\ datasets' = [d \in DatasetIds |->
                              IF datasets[d].kind = "row" /\ datasets[d].client_id = c
                              THEN DeletedDataset ELSE datasets[d]]
            /\ runs' = [r \in RunIds |->
                          IF runs[r].kind = "row" /\ runs[r].client_id = c
                          THEN DeletedRun ELSE runs[r]]
            /\ response' = Response(204)
    /\ UNCHANGED <<files, tasks>>
    /\ UNCHANGED validator

\* Variant of line 279: a failed run may be optimized as well
MayOptimizeFinished(run) == run.status \in {"complete", "failed"}

\* line 279
MayOptimize(run) == run.status = "complete"

\* POST /{client_id}/runs/{run_id}/optimize by user u.  The results of a
\* complete run hold no allocation rows, so runner.optimize_budget returns
\* its list without raising.
OptimizeBudget(u, c, r) ==
    /\ response' = Response(IF ~Owned(clients, u, c) THEN 404
                            ELSE IF runs[r].kind # "row" \/ runs[r].client_id # c THEN 404
                            ELSE IF ~MayOptimize(runs[r]) THEN 400
                            ELSE 200)
    /\ UNCHANGED <<clients, datasets, files, runs, tasks>>
    /\ UNCHANGED validator

\* the API as the database is created: no validator is under study
InitPlatform ==
    /\ df = [cols |-> <<>>, rows |-> 0, data |-> <<>>]
    /\ date_column = NoColumn
    /\ messages = <<>>
    /\ history = <<>>
    /\ PlatformIdle

NextPlatform ==
    \/ \E u \in Users, c \in ClientIds, d \in UploadFrames : UploadCsv(u, c, d)
    \/ \E u \in Users, c \in ClientIds, d \in DatasetIds : CreateModelRun(u, c, d)
    \/ \E u \in Users, c \in ClientIds, d \in DatasetIds : DeleteDataset(u, c, d)
    \/ \E u \in Users, c \in ClientIds, r \in RunIds : OptimizeBudget(u, c, r)
    \/ \E u \in Users, c \in ClientIds : DeleteClient(u, c)
    \/ \E r \in RunIds : RunModelAsyncStart(r)
    \/ \E r \in RunIds : RunModelAsyncFinish(r)

\* the requests of the users and the background tasks, interleaved
SpecPlatform == InitPlatform /\ [][NextPlatform]_vars

\* A background task that was added is run, and once it has started it
\* runs on: its body has no await, and the runner ends within its timeout.
SpecPlatformFair ==
    /\ SpecPlatform
    /\ \A r \in RunIds : WF_vars(RunModelAsyncStart(r)) /\ WF_vars(RunModelAsyncFinish(r))

(* ------------------------------- claims ------------------------------- *)

Calls == 1..Len(history)
ValidateCalls == {i \in Calls : history[i].op = "validate"}
RangeCalls == {i \in Calls : history[i].op = "get_date_range"}

\* the DataFrame and self.date_column right after call i
DfAfter(i) == IF i < Len(history) THEN history[i + 1].df0 ELSE df
DcAfter(i) == IF i < Len(history) THEN history[i + 1].dc0 ELSE date_column

HasText(msgs, text) == \E k \in 1..Len(msgs) : msgs[k].text = text

\* the candidates of list that some column name equals case-insensitively
Present(cols, list) ==
    {k \in 1..Len(list) : \E i \in 1..Len(cols) : Lower(cols[i]) = list[k]}

\* C1: validate() on a dataset with zero rows returns status "error" and
\* the single message "Dataset is empty", and neither detects a column
\* nor rewrites one.
C1_EmptyDataset ==
    \A i \in ValidateCalls :
        history[i].df0.rows = 0 =>
            /\ history[i].status = "error"
            /\ history[i].messages =
                   <<[text |-> "Dataset is empty", col |-> <<>>, n |-> 0]>>
            /\ DfAfter(i) = history[i].df0
            /\ DcAfter(i) = history[i].dc0

C1_Witness ==
    \E i \in ValidateCalls :
        /\ history[i].df0.rows = 0
        /\ Present(history[i].df0.cols, DATE_COLUMN_NAMES) # {}

\* C2: a report that carries any finding and is not an error has status
\* "warning"; status "valid" comes only with no finding at all.
C2_FindingsWarn ==
    \A i \in ValidateCalls :
        /\ (history[i].status # "error" /\ history[i].messages # <<MsgPassed>>)
               => history[i].status = "warning"
        /\ history[i].status = "valid" => history[i].messages = <<MsgPassed>>

\* C3: two validate() calls in sequence on the same validator and dataset
\* return the same status and the same messages.
C3_Idempotent ==
    \A i \in ValidateCalls :
        (i + 1) \in ValidateCalls =>
            /\ history[i + 1].status = history[i].status
            /\ history[i + 1].messages = history[i].messages

C3_Witness ==
    \E i \in ValidateCalls :
        /\ (i + 1) \in ValidateCalls
        /\ history[i + 1].df0 # history[i].df0
        /\ Len(history[i].messages) > 1

Severity(status) ==
    CASE status = "valid" -> 0
      [] status = "warning" -> 1
      [] status = "error" -> 2
      [] OTHER -> 3

\* C4: within one validate() the status never decreases in severity from
\* one check to the next.
C4_MonotoneSeverity ==
    \A i \in ValidateCalls :
        \A k \in 1..(Len(history[i].trace) - 1) :
            Severity(history[i].trace[k]) <= Severity(history[i].trace[k + 1])

C4_Witness ==
    \E i \in ValidateCalls :
        /\ history[i].trace[3] = "warning"
        /\ history[i].trace[4] = "error"
        /\ Len(history[i].messages) > 3

\* C5: status "error" is returned only for an empty dataset, when no date
\* column is identified, or when the identified one does not parse.
C5_ErrorOnlyStructural ==
    \A i \in ValidateCalls :
        history[i].status = "error" =>
            \/ history[i].df0.rows = 0
            \/ DcAfter(i) = NoColumn
            \/ \E c \in 1..Len(history[i].df0.cols) :
                  /\ history[i].df0.cols[c] = DcAfter(i)
                  /\ \E r \in 1..history[i].df0.rows :
                        history[i].df0.data[c][r].kind = "bad"

C5_Witness ==
    \E i \in ValidateCalls :
        /\ history[i].status = "warning"
        /\ Len(history[i].messages) > 3
        /\ HasText(history[i].messages, MsgDuplicates(0).text)
        /\ HasText(history[i].messages, MsgNulls(NoColumn, 0).text)

\* a column of date strings, all distinct, each but the earliest exactly
\* 7 days after another
EvenlyWeekly(col) ==
    LET days == {col[r].v : r \in 1..Len(col)}
    IN /\ \A r \in 1..Len(col) : col[r].kind = "str"
       /\ Cardinality(days) = Len(col)
       /\ \A d \in days : (\A e \in days : d <= e) \/ (d - 7) \in days

\* the precondition of C6
CleanWeeklyDataset(d) ==
    /\ d.rows >= 52
    /\ Present(d.cols, DATE_COLUMN_NAMES) # {}
    /\ \A c \in 1..Len(d.cols) :
          Lower(d.cols[c]) \in {DATE_COLUMN_NAMES[k] : k \in 1..Len(DATE_COLUMN_NAMES)}
              => EvenlyWeekly(d.data[c])
    /\ Present(d.cols, REVENUE_COLUMN_NAMES) # {}
    /\ \A c \in 1..Len(d.cols) : \A r \in 1..d.rows :
          d.data[c][r].kind \in {"str", "num"}
    /\ \E c \in 1..Len(d.cols) : Contains(d.cols[c], SpendWord)

\* C6: a dataset of at least 52 rows with a parseable date column evenly
\* spaced 7 days apart, a revenue column, a spend column, no missing value
\* and no duplicate date is reported "valid" with the single message
\* "Data validation passed".
C6_CleanIsValid ==
    \A i \in ValidateCalls :
        CleanWeeklyDataset(history[i].df0) =>
            /\ history[i].status = "valid"
            /\ history[i].messages =
                   <<[text |-> "Data validation passed", col |-> <<>>, n |-> 0]>>

C6_Witness ==
    \E i \in ValidateCalls :
        /\ CleanWeeklyDataset(history[i].df0)
        /\ history[i].df0.data[1][1].v > history[i].df0.data[1][2].v

\* what C7 says of the column chosen for a role
ChosenByPriority(cols, list, chosen) ==
    IF Present(cols, list) = {}
    THEN chosen = NoColumn
    ELSE /\ \E c \in 1..Len(cols) : cols[c] = chosen
         /\ \E k \in Present(cols, list) :
               /\ \A m \in Present(cols, list) : k <= m
               /\ Lower(chosen) = list[k]

\* C7: for the date role and for the revenue role, inference selects a
\* column whose lowercased name equals the earliest candidate of the list
\* that some column name equals case-insensitively, and finds none when no
\* column name equals a candidate.
C7_InferenceByPriority ==
    /\ \A i \in ValidateCalls :
          history[i].df0.rows > 0 =>
              /\ ChosenByPriority(history[i].df0.cols, DATE_COLUMN_NAMES, DcAfter(i))
              /\ ChosenByPriority(history[i].df0.cols, REVENUE_COLUMN_NAMES,
                                  history[i].revenue_col)
    /\ \A i \in RangeCalls :
          history[i].dc0 = NoColumn =>
              ChosenByPriority(history[i].df0.cols, DATE_COLUMN_NAMES, DcAfter(i))

C7_Witness ==
    \E i \in ValidateCalls :
        /\ Len(history[i].df0.cols) = 3
        /\ history[i].df0.cols[1] = NameUpdate
        /\ history[i].df0.cols[2] = NameWeekUp
        /\ history[i].df0.cols[3] = NameDateCap
        /\ DcAfter(i) = NameDateCap

\* the place of a message in the check order
Rank(text) ==
    CASE text = MsgEmpty.text -> 0
      [] text = MsgMinRows(0).text -> 1
      [] text \in {MsgNoDate.text, MsgNoParse(NoColumn).text} -> 2
      [] text = MsgNoRevenue.text -> 3
      [] text = MsgNulls(NoColumn, 0).text -> 4
      [] text = MsgNoSpend.text -> 5
      [] text = MsgDuplicates(0).text -> 6
      [] text \in {MsgNotWeekly(0).text, MsgGaps(0).text} -> 7
      [] OTHER -> 8

\* C8: the messages of a report follow the check order; only
\* missing-value messages repeat, and they follow the column order.
C8_MessageOrder ==
    \A i \in ValidateCalls :
        LET m == history[i].messages
            cols == history[i].df0.cols
        IN \A a, b \in 1..Len(m) :
              a < b =>
                  \/ Rank(m[a].text) < Rank(m[b].text)
                  \/ /\ Rank(m[a].text) = 4
                     /\ Rank(m[b].text) = 4
                     /\ \E ca, cb \in 1..Len(cols) :
                           ca < cb /\ cols[ca] = m[a].col /\ cols[cb] = m[b].col

C8_Witness ==
    \E i \in ValidateCalls :
        LET m == history[i].messages
        IN /\ Len(m) > 3
           /\ Rank(m[1].text) = 1
           /\ Rank(m[2].text) = 4
           /\ Rank(m[3].text) = 4
           /\ Rank(m[Len(m)].text) = 7

\* C9: validate() never raises: it returns a status among "valid",
\* "warning", "error" and at least one message.
C9_ValidateReturns ==
    \A i \in ValidateCalls :
        /\ history[i].status \in {"valid", "warning", "error"}
        /\ Len(history[i].messages) > 0

C9_Witness ==
    \E i \in ValidateCalls :
        /\ history[i].status = "error"
        /\ HasText(history[i].messages, MsgNoParse(NoColumn).text)
        /\ history[i].df0.rows >= REQUIRED_MIN_ROWS

\* the timestamps the cells of a column parse to
ParsedTimes(col) ==
    {ParseCell(col[r]).v : r \in {q \in 1..Len(col) : ParseCell(col[q]).kind = "ts"}}

\* C10: get_date_range() never raises; it returns (None, None) when no
\* date column is found or the column does not parse, and otherwise the
\* minimum and the maximum of the column's parsed timestamps.
C10_DateRange ==
    \A i \in RangeCalls :
        LET h == history[i]
            c == ColumnIndex(h.df0, DcAfter(i))
        IN /\ h.status = "returned"
           /\ IF c = 0 \/ ParseRaises(h.df0.data[c])
              THEN h.range = <<PyNone, PyNone>>
              ELSE /\ h.range[1].kind = "ts"
                   /\ h.range[2].kind = "ts"
                   /\ h.range[1].v \in ParsedTimes(h.df0.data[c])
                   /\ h.range[2].v \in ParsedTimes(h.df0.data[c])
                   /\ \A t \in ParsedTimes(h.df0.data[c]) :
                         h.range[1].v <= t /\ t <= h.range[2].v

ChannelCalls == {i \in Calls : history[i].op = "get_detected_channels"}

\* the positions of the columns that qualify as spend columns: "spend" in
\* the name in any case, or the name ending in "_S"
Qualifying(cols) ==
    {j \in 1..Len(cols) :
        Contains(Lower(cols[j]), <<"s","p","e","n","d">>) \/ EndsWith(cols[j], <<"_","S">>)}

\* the k-th qualifying position, in column order
QualifyingAt(cols, k) ==
    CHOOSE j \in Qualifying(cols) : Cardinality({m \in Qualifying(cols) : m <= j}) = k

\* a qualifying name without its "spend_" prefix, else without its
\* "_spend" suffix, else without its "_S" suffix, else as it is
StrippedName(c) ==
    IF Len(c) >= 6 /\ SubSeq(c, 1, 6) = <<"s","p","e","n","d","_">>
    THEN SubSeq(c, 7, Len(c))
    ELSE IF EndsWith(c, <<"_","s","p","e","n","d">>) THEN SubSeq(c, 1, Len(c) - 6)
    ELSE IF EndsWith(c, <<"_","S">>) THEN SubSeq(c, 1, Len(c) - 2)
    ELSE c

ExampleColumns ==
    << <<"d","a","t","e">>, <<"r","e","v","e","n","u","e">>,
       <<"s","p","e","n","d","_","m","e","t","a">>, <<"g","o","o","g","l","e","_","S">> >>

\* C11: get_detected_channels() returns one entry per qualifying spend
\* column, in column order, each the column's name with "spend_" / "_spend"
\* or the "_S" suffix stripped; the columns date, revenue, spend_meta,
\* google_S give meta, google.
C11_DetectedChannels ==
    \A i \in ChannelCalls :
        LET cols == history[i].df0.cols
            r == history[i].channels
        IN /\ Len(r) = Cardinality(Qualifying(cols))
           /\ \A k \in 1..Len(r) : r[k] = StrippedName(cols[QualifyingAt(cols, k)])
           /\ cols = ExampleColumns
                 => r = << <<"m","e","t","a">>, <<"g","o","o","g","l","e">> >>

C11_Witness ==
    \E i \in ChannelCalls :
        /\ history[i].df0.cols = ExampleColumns
        /\ Len(history[i].channels) = 2

\* the cells of a column after a parse that succeeded
ParsedColumn(col) == [r \in 1..Len(col) |-> ParseCell(col[r])]

\* C12: validate(), get_date_range() and get_detected_channels() leave the
\* dataset as it was -- columns, row order and values -- except that
\* validate() replaces the values of the detected date column by their
\* parsed timestamps when the column parses.
C12_FrameUnchanged ==
    \A i \in Calls :
        LET before == history[i].df0
            after == DfAfter(i)
            c == ColumnIndex(before, DcAfter(i))
            parsed == /\ history[i].op = "validate"
                      /\ before.rows > 0
                      /\ c # 0
                      /\ ~ParseRaises(before.data[c])
        IN /\ after.cols = before.cols
           /\ after.rows = before.rows
           /\ \A k \in 1..Len(before.cols) :
                 after.data[k] = IF parsed /\ k = c
                                 THEN ParsedColumn(before.data[k])
                                 ELSE before.data[k]

C12_Witness ==
    \E i \in ValidateCalls :
        /\ DfAfter(i) # history[i].df0
        /\ history[i].df0.rows >= REQUIRED_MIN_ROWS
        /\ \E j \in ChannelCalls : j > i

TextNotWeekly == "Data may not be weekly (median interval: {median_diff.days} days)"
TextGaps == "Found {len(gaps)} gaps in weekly data"
TextDuplicates == "Found {duplicates} duplicate dates"

\* the number a message with this text carries, when there is one
NumberIn(msgs, text) == msgs[CHOOSE k \in 1..Len(msgs) : msgs[k].text = text].n

\* the date column call i worked on, as the dataset held it before the
\* call (0 when none was identified)
DateIndex(i) == ColumnIndex(history[i].df0, DcAfter(i))

\* n rows that all parse, to n timestamps a whole number of days apart
SpacedBy(col, days) ==
    /\ \A r \in 1..Len(col) : ParseCell(col[r]).kind = "ts"
    /\ Cardinality(ParsedTimes(col)) = Len(col)
    /\ \E lo \in ParsedTimes(col) :
          ParsedTimes(col) = {lo + k * days * UnitsPerDay : k \in 0..(Len(col) - 1)}

\* C13: a report with the "Data may not be weekly" message has no gaps
\* message; a dataset of at least 52 rows whose dates are exactly one day
\* apart gets the message with median interval 1 and no gaps message.
C13_MismatchSkipsGaps ==
    \A i \in ValidateCalls :
        LET h == history[i]
        IN /\ HasText(h.messages, TextNotWeekly) => ~HasText(h.messages, TextGaps)
           /\ (/\ h.df0.rows >= 52
               /\ DateIndex(i) # 0
               /\ SpacedBy(h.df0.data[DateIndex(i)], 1))
              => /\ HasText(h.messages, TextNotWeekly)
                 /\ NumberIn(h.messages, TextNotWeekly) = 1
                 /\ ~HasText(h.messages, TextGaps)

C13_Witness ==
    \E i \in ValidateCalls :
        /\ history[i].df0.rows >= 52
        /\ DateIndex(i) # 0
        /\ SpacedBy(history[i].df0.data[DateIndex(i)], 1)
        /\ HasText(history[i].messages, TextNotWeekly)

\* the values of a column that equal an earlier value of it: the rows
\* less the distinct values
RepeatedValues(col) == Len(col) - Cardinality({col[r] : r \in 1..Len(col)})

\* C14: when a date column was identified, "Found {count} duplicate dates"
\* is in the report exactly when the column holds values equal to an
\* earlier one, count is their number (rows less distinct values), and
\* the status is then at least "warning".
C14_DuplicateDates ==
    \A i \in ValidateCalls :
        LET h == history[i]
            col == DfAfter(i).data[DateIndex(i)]
        IN DateIndex(i) # 0 =>
              /\ HasText(h.messages, TextDuplicates) <=> RepeatedValues(col) > 0
              /\ HasText(h.messages, TextDuplicates) =>
                    /\ NumberIn(h.messages, TextDuplicates) = RepeatedValues(col)
                    /\ h.status \in {"warning", "error"}

C14_Witness ==
    \E i \in ValidateCalls :
        /\ DateIndex(i) # 0
        /\ history[i].df0.rows >= 52
        /\ HasText(history[i].messages, TextDuplicates)
        /\ NumberIn(history[i].messages, TextDuplicates) = 1
        /\ history[i].status = "warning"

\* the report of validate() by a validator newly created on dataset d
FreshReport(d) ==
    LET Run(s, t) == IF Halted(s) THEN s ELSE t
        s0 == StartValidate(d, NoColumn, <<>>)
        s1 == StepEmpty(s0)
        s2 == Run(s1, StepMinRows(s1))
        s3 == Run(s2, StepDateColumn(s2))
        s4 == Run(s3, StepRevenue(s3))
        s5 == Run(s4, StepNulls(s4))
        s6 == Run(s5, StepSpend(s5))
        s7 == Run(s6, StepDuplicates(s6))
        s8 == Run(s7, StepMissingWeeks(s7))
        s9 == Run(s8, StepFinal(s8))
    IN [status |-> IF s9.exc # NoExc THEN "raised" ELSE s9.status,
        messages |-> s9.messages]

\* C15: every validate() derives its messages and its date column afresh:
\* whatever calls came before and however the dataset's columns changed
\* between them, the report is that of a newly created validator on the
\* dataset as it is at the call.
C15_DerivedAfresh ==
    \A i \in ValidateCalls :
        /\ history[i].status = FreshReport(history[i].df0).status
        /\ history[i].messages = FreshReport(history[i].df0).messages

TextNoDate == "No date column detected. Expected: date, week, week_start"
TextNoParse == "Could not parse '{self.date_column}' as dates"

\* the differences between adjacent timestamps of the date column call i
\* parsed, in ascending order of the timestamps
Intervals(i) == Diffs(SortedTimes(DfAfter(i).data[DateIndex(i)]))

\* call i reached the cadence check with a median to judge: a date column
\* was identified, the status is no error, and the column holds at least
\* two timestamps
CadenceJudged(i) ==
    /\ DateIndex(i) # 0
    /\ history[i].status \in {"valid", "warning"}
    /\ Len(Intervals(i)) >= 1

\* C16: the "Data may not be weekly" message is emitted exactly when the
\* median difference is less than 5 days or greater than 9 days, a
\* non-whole median such as 9.5 days included.
C16_MedianOutsideWeek ==
    \A i \in ValidateCalls :
        CadenceJudged(i) =>
            (HasText(history[i].messages, TextNotWeekly)
                <=> \/ TwiceMedian(Intervals(i)) < 2 * 5 * UnitsPerDay
                    \/ TwiceMedian(Intervals(i)) > 2 * 9 * UnitsPerDay)

\* C17: with fewer than 2 distinct timestamps -- one row, or several rows
\* of the same timestamp -- the cadence check is skipped: the report has
\* neither the "Data may not be weekly" nor the gaps message.
C17_FewTimestampsSkipped ==
    \A i \in ValidateCalls :
        (/\ DateIndex(i) # 0
         /\ history[i].df0.rows > 0
         /\ Cardinality(ParsedTimes(history[i].df0.data[DateIndex(i)])) < 2)
        => /\ ~HasText(history[i].messages, TextNotWeekly)
           /\ ~HasText(history[i].messages, TextGaps)

C19_NoCadenceOnError ==
    \A i \in ValidateCalls :
        LET h == history[i]
        IN /\ h.status = "error"
                => /\ ~HasText(h.messages, TextNotWeekly)
                   /\ ~HasText(h.messages, TextGaps)
           /\ (/\ DateIndex(i) # 0
               /\ HasText(h.messages, TextNoParse)
               /\ RepeatedValues(h.df0.data[DateIndex(i)]) > 0)
              => /\ HasText(h.messages, TextDuplicates)
                 /\ NumberIn(h.messages, TextDuplicates)
                        = RepeatedValues(h.df0.data[DateIndex(i)])

C19_Witness ==
    \E i \in ValidateCalls :
        /\ history[i].status = "error"
        /\ HasText(history[i].messages, TextNoParse)
        /\ HasText(history[i].messages, TextDuplicates)
        /\ NumberIn(history[i].messages, TextDuplicates) = 2

\* the differences strictly greater than 10 days
WideIntervals(diffs) == {k \in 1..Len(diffs) : diffs[k] > 10 * UnitsPerDay}

\* C20: when the median difference is within 5 to 9 days, "Found {count}
\* gaps in weekly data" is emitted exactly when some difference between
\* adjacent sorted timestamps is strictly greater than 10 days, and count
\* is the number of those differences.
C20_GapsCounted ==
    \A i \in ValidateCalls :
        (/\ CadenceJudged(i)
         /\ TwiceMedian(Intervals(i)) >= 2 * 5 * UnitsPerDay
         /\ TwiceMedian(Intervals(i)) <= 2 * 9 * UnitsPerDay)
        => /\ HasText(history[i].messages, TextGaps)
                <=> WideIntervals(Intervals(i)) # {}
           /\ HasText(history[i].messages, TextGaps)
                => NumberIn(history[i].messages, TextGaps)
                      = Cardinality(WideIntervals(Intervals(i)))

C20_Witness ==
    \E i \in ValidateCalls :
        /\ CadenceJudged(i)
        /\ history[i].df0.rows >= 52
        /\ HasText(history[i].messages, TextGaps)
        /\ NumberIn(history[i].messages, TextGaps) = 1
        /\ \E k \in 1..Len(Intervals(i)) : Intervals(i)[k] = 14 * UnitsPerDay

TextMinRows == "Dataset has {len(self.df)} rows, minimum {self.REQUIRED_MIN_ROWS} required"
TextNoSpend ==
    "No spend columns detected (expected columns containing 'spend' or ending with '_S')"
TextNulls == "Column '{col}' has {count} missing values"
TextPassed == "Data validation passed"

\* C21: for a dataset with rows, "Dataset has {n} rows, minimum 52
\* required" is emitted exactly when the row count is below 52, n being
\* the row count; 52 rows get no such message.
C21_MinimumRows ==
    \A i \in ValidateCalls :
        LET h == history[i]
        IN h.df0.rows > 0 =>
              /\ HasText(h.messages, TextMinRows) <=> h.df0.rows < 52
              /\ HasText(h.messages, TextMinRows)
                    => NumberIn(h.messages, TextMinRows) = h.df0.rows

C21_Witness ==
    \E i \in ValidateCalls :
        /\ history[i].df0.rows = 52
        /\ ~HasText(history[i].messages, TextMinRows)
        /\ history[i].status = "warning"

\* C22: for a dataset with rows, "No spend columns detected" is emitted
\* exactly when no column name holds "spend" in any case and none ends in
\* "_S"; a name ending in "_s" does not count.
C22_NoSpendColumns ==
    \A i \in ValidateCalls :
        history[i].df0.rows > 0 =>
            (HasText(history[i].messages, TextNoSpend)
                <=> Qualifying(history[i].df0.cols) = {})

C22_Witness ==
    \E i \in ValidateCalls :
        /\ HasText(history[i].messages, TextNoSpend)
        /\ \E k \in 1..Len(history[i].df0.cols) :
              history[i].df0.cols[k] = <<"g","o","o","g","l","e","_","s">>

\* the missing values of a column as validate() leaves it
MissingIn(col) == Cardinality({r \in 1..Len(col) : col[r].kind \in {"null", "nat"}})

\* the positions of the columns with a missing value, in column order
ColumnsMissing(d) ==
    SelectSeq([k \in 1..Len(d.cols) |-> k], LAMBDA k : MissingIn(d.data[k]) > 0)

\* C23: for a dataset with rows, the "Column '{column}' has {count} missing
\* values" messages are one for each column with a missing value, in
\* column order, and no other, count being the column's missing values
\* (the date column's after its parse).
C23_MissingValues ==
    \A i \in ValidateCalls :
        LET d == DfAfter(i)
            said == SelectSeq(history[i].messages, LAMBDA m : m.text = TextNulls)
            due == ColumnsMissing(d)
        IN history[i].df0.rows > 0 =>
              /\ Len(said) = Len(due)
              /\ \A k \in 1..Len(said) :
                    /\ said[k].col = d.cols[due[k]]
                    /\ said[k].n = MissingIn(d.data[due[k]])

C23_Witness ==
    \E i \in ValidateCalls :
        LET said == SelectSeq(history[i].messages, LAMBDA m : m.text = TextNulls)
        IN /\ Len(said) = 2
           /\ said[1].col = DcAfter(i)
           /\ said[1].n = 2
           /\ \E r \in 1..history[i].df0.rows :
                 history[i].df0.data[DateIndex(i)][r].kind = "blank"

\* C25: "Data validation passed" is in a report only as its sole message
\* and only with status "valid"; it is appended exactly when no check
\* emitted a message, so no report is without a message.
C25_PassedAlone ==
    \A i \in ValidateCalls :
        LET m == history[i].messages
        IN /\ Len(m) > 0
           /\ HasText(m, TextPassed) => (Len(m) = 1 /\ history[i].status = "valid")

C25_Witness ==
    \E i \in ValidateCalls :
        /\ (i + 1) \in ValidateCalls
        /\ history[i].messages = <<MsgPassed>>
        /\ history[i + 1].messages = <<MsgPassed>>
        /\ history[i].status = "valid"

\* C26: when the identified date column does not parse, validate() leaves
\* the dataset as it was, the date column with its raw values, and a later
\* get_date_range() returns (None, None).
C26_FailedParseKeepsData ==
    \A i \in ValidateCalls :
        HasText(history[i].messages, TextNoParse) =>
            /\ DfAfter(i) = history[i].df0
            /\ \A j \in RangeCalls :
                  j > i => /\ history[j].status = "returned"
                           /\ history[j].range = <<PyNone, PyNone>>

C26_Witness ==
    \E i \in ValidateCalls :
        /\ HasText(history[i].messages, TextNoParse)
        /\ (i + 1) \in RangeCalls
        /\ \E r \in 1..history[i].df0.rows :
              history[i].df0.data[DateIndex(i)][r].kind = "str"

\* C27: for a dataset with rows, validate() emits "No spend columns
\* detected" exactly when get_detected_channels() returns an empty list,
\* and the list is as long as the qualifying spend columns are many.
C27_SpendDetectionAgrees ==
    \A i \in ValidateCalls : \A j \in ChannelCalls :
        history[i].df0.rows > 0 =>
            /\ HasText(history[i].messages, TextNoSpend) <=> history[j].channels = <<>>
            /\ Len(history[j].channels) = Cardinality(Qualifying(history[j].df0.cols))

C27_Witness ==
    \E i \in ValidateCalls : \E j \in ChannelCalls :
        /\ history[i].df0.rows > 0
        /\ ~HasText(history[i].messages, TextNoSpend)
        /\ Len(history[j].channels) = 1
        /\ \E k \in 1..Len(history[j].df0.cols) :
              history[j].df0.cols[k] = <<"g","o","o","g","l","e","_","S">>

StoredRuns == {r \in RunIds : runs[r].kind = "row"}

\* C24: a dataset whose stored validation_status is "error" is not
\* consumed downstream: no model run is created, nor its task started, for
\* such a dataset.
C24_ErrorNotConsumed ==
    \A r \in StoredRuns :
        datasets[runs[r].dataset_id].kind = "row"
            => datasets[runs[r].dataset_id].validation_status # "error"

Terminal == {"complete", "failed"}

\* the status changes C28 allows
AllowedMoves ==
    {<<"queued", "running">>, <<"running", "complete">>, <<"running", "failed">>}

\* what C28 says of a stored run: started_at set once it runs, completed_at
\* set exactly in a terminal status, progress 100 and results stored when
\* complete, an error message stored when failed
RunAsClaimed(run) ==
    /\ run.status \in {"queued", "running", "complete", "failed"}
    /\ run.status # "queued" => run.started_at
    /\ run.completed_at <=> run.status \in Terminal
    /\ run.status = "complete" => (run.progress = 100 /\ run.results)
    /\ run.status = "failed" => run.error_message # "None"

\* C28: a model run is created "queued" and its status only moves
\* queued -> running -> complete or failed, with started_at, completed_at,
\* progress, results and error message as the status has them; a run in a
\* terminal status never changes status again.
C28_RunStatusMoves ==
    [][\A r \in RunIds :
          /\ (runs[r].kind = "free" /\ runs'[r].kind = "row")
                => runs'[r].status = "queued"
          /\ (runs[r].kind = "row" /\ runs'[r].kind = "row"
                /\ runs'[r].status # runs[r].status)
                => <<runs[r].status, runs'[r].status>> \in AllowedMoves
          /\ runs'[r].kind = "row" => RunAsClaimed(runs'[r])]_vars

C28_Witness ==
    \E r \in StoredRuns :
        /\ runs[r].status = "failed"
        /\ runs[r].error_message = "Model run timed out after 1 hour"
        /\ tasks[r] = "done"

\* C29 as claimed: every model run whose background task starts eventually
\* reaches status "complete" or "failed", whatever requests come in between
\* and however the runner fails.
C29_RunReachesTerminal ==
    \A r \in RunIds :
        (tasks[r] = "started") ~> (runs[r].kind = "row" /\ runs[r].status \in Terminal)

\* C29: every model run whose background task starts eventually reaches
\* status "complete" or "failed", or is deleted with its client; it never
\* stays "running" forever, whatever requests come in between and however
\* the runner fails.
C29_RunEnds ==
    \A r \in RunIds :
        (tasks[r] = "started")
            ~> \/ runs[r].kind = "row" /\ runs[r].status \in Terminal
               \/ runs[r].kind = "deleted"

C29_Witness ==
    \E r \in StoredRuns :
        /\ runs[r].status = "failed"
        /\ runs[r].error_message = "AttributeError"
        /\ datasets[runs[r].dataset_id].kind = "deleted"
        /\ tasks[r] = "done"

\* C30: optimize_budget answers 200 only for a complete run of a client
\* the caller owns, 400 for such a run that is queued, running or failed,
\* 404 for a run or client that is not the caller's, and changes no stored
\* state.
C30_OptimizeOnlyComplete ==
    [][\A u \in Users, c \in ClientIds, r \in RunIds :
          OptimizeBudget(u, c, r) =>
              LET own == /\ Owned(clients, u, c)
                         /\ runs[r].kind = "row" /\ runs[r].client_id = c
              IN /\ response'.code = 200 <=> (own /\ runs[r].status = "complete")
                 /\ response'.code = 400
                        <=> (own /\ runs[r].status \in {"queued", "running", "failed"})
                 /\ response'.code = 404 <=> ~own
                 /\ UNCHANGED <<clients, datasets, files, runs, tasks>>]_vars

C30_Witness ==
    /\ response = Response(400)
    /\ \E r \in StoredRuns : runs[r].status = "running"

====
